---- MODULE Spec2Model ----
(***************************************************************************)
(* Model of news_sentiment_app.py: one run of the Streamlit script.        *)
(* fetch_articles -> process_articles -> date buckets -> metrics -> table  *)
(* -> bar chart -> tabs.                                                   *)
(*                                                                         *)
(* Python values are tagged records [t, v]; text is a sequence of code     *)
(* points; polarity is an integer number of 1/PolarityScale units; dates   *)
(* are proleptic Gregorian ordinals (date.toordinal()).                    *)
(* The emoji prefix of the three sentiment labels is left out of the label *)
(* strings.                                                                *)
(***************************************************************************)
EXTENDS Integers, Sequences, FiniteSets, TLC

\* ---------------------------------------------------------------- bounds
MaxArticles == 2
PolarityScale == 100

\* ---------------------------------------------------------- Python values
PyNone == [t |-> "none", v |-> <<>>]
PyAbsent == [t |-> "absent", v |-> <<>>]
PyStr(s) == [t |-> "str", v |-> s]
PyInt(n) == [t |-> "int", v |-> n]
\* a mapping whose only possible key is "name": {} is PyDict(PyAbsent)
PyDict(name) == [t |-> "dict", v |-> name]

\* dict.get(key, default): the default only when the key is absent
DictGet(val, default) == IF val.t = "absent" THEN default ELSE val

\* Python truthiness as used by "not title" / "not date_str"
Falsy(val) ==
    \/ val.t = "none"
    \/ val.t = "str" /\ Len(val.v) = 0
    \/ val.t = "int" /\ val.v = 0
    \/ val.t = "dict" /\ val.v.t = "absent"

\* ------------------------------------------------------------ text helpers
\* A character is its code point: "0".."9" are 48..57, " " is 32, "-" is 45,
\* ":" is 58, "T" "t" "Z" "z" are 84 116 90 122.

\* the code point of the digit zero of every decimal-digit block that the
\* regular expression \d matches on a str (Unicode 14); the nine code points
\* after each are its digits one to nine
DigitZeros ==
    {48, 1632, 1776, 1984, 2406, 2534, 2662, 2790, 2918, 3046, 3174, 3302, 3430,
     3558, 3664, 3792, 3872, 4160, 4240, 6112, 6160, 6470, 6608, 6784, 6800, 6992,
     7088, 7232, 7248, 42528, 43216, 43264, 43472, 43504, 43600, 44016, 65296,
     66720, 68912, 69734, 69872, 69942, 70096, 70384, 70736, 70864, 71248, 71360,
     71472, 71904, 72016, 72784, 73040, 73120, 92768, 92864, 93008, 120782, 120792,
     120802, 120812, 120822, 123200, 123632, 125264, 130032}

\* \d
IsDigit(c) == c \in 48..57 \/ \E z \in DigitZeros : c - z \in 0..9

\* int() of one decimal digit
DigitVal(c) ==
    IF c \in 48..57 THEN c - 48 ELSE c - (CHOOSE z \in DigitZeros : c - z \in 0..9)

DigitChar(n) == 48 + n

AllDigits(s) == \A i \in 1..Len(s) : IsDigit(s[i])

\* int() of the text of a field: decimal digits after optional blanks
RECURSIVE NumVal(_)
NumVal(s) ==
    IF Len(s) = 0 THEN 0
    ELSE IF s[Len(s)] = 32 THEN NumVal(SubSeq(s, 1, Len(s) - 1))
    ELSE 10 * NumVal(SubSeq(s, 1, Len(s) - 1)) + DigitVal(s[Len(s)])

\* index of the first character of s at or after position from that is in
\* seps, or 0 when there is none
RECURSIVE FindSep(_, _, _)
FindSep(s, from, seps) ==
    IF from > Len(s) THEN 0
    ELSE IF s[from] \in seps THEN from
    ELSE FindSep(s, from + 1, seps)

\* --------------------------------------------------------------- calendar
IsLeap(y) == (y % 4 = 0) /\ ((y % 100 # 0) \/ (y % 400 = 0))

DaysInMonth(y, m) ==
    CASE m \in {1, 3, 5, 7, 8, 10, 12} -> 31
      [] m \in {4, 6, 9, 11} -> 30
      [] m = 2 -> IF IsLeap(y) THEN 29 ELSE 28

RECURSIVE DaysBeforeMonth(_, _)
DaysBeforeMonth(y, m) ==
    IF m = 1 THEN 0 ELSE DaysBeforeMonth(y, m - 1) + DaysInMonth(y, m - 1)

\* date.toordinal(): 0001-01-01 is day 1
ToOrdinal(y, m, d) ==
    365 * (y - 1) + ((y - 1) \div 4) - ((y - 1) \div 100) + ((y - 1) \div 400)
      + DaysBeforeMonth(y, m) + d

\* date.weekday(): Monday is 0, Sunday is 6
Weekday(ord) == (ord + 6) % 7

\* -------------------------------------------------------------- strptime
\* datetime.strptime(s, "%Y-%m-%dT%H:%M:%SZ") on a str.  The format compiles
\* to a regular expression matched case-insensitively against the whole
\* text; no field can hold one of the literal characters, so each field is
\* the text up to the next literal:
\*   %Y \d\d\d\d                              %H 2[0-3]|[0-1]\d|\d
\*   %m 1[0-2]|0[1-9]|[1-9]                   %M [0-5]\d|\d
\*   %d 3[0-1]|[1-2]\d|0[1-9]|[1-9]| [1-9]    %S 6[0-1]|[0-5]\d|\d
\* Result: [ok |-> TRUE, dt |-> datetime] or [ok |-> FALSE] (ValueError).
YearField(f) == Len(f) = 4 /\ AllDigits(f)

MonthField(f) ==
    \/ Len(f) = 2 /\ f[1] = 49 /\ f[2] \in 48..50
    \/ Len(f) = 2 /\ f[1] = 48 /\ f[2] \in 49..57
    \/ Len(f) = 1 /\ f[1] \in 49..57

DayField(f) ==
    \/ Len(f) = 2 /\ f[1] = 51 /\ f[2] \in 48..49
    \/ Len(f) = 2 /\ f[1] \in 49..50 /\ IsDigit(f[2])
    \/ Len(f) = 2 /\ f[1] = 48 /\ f[2] \in 49..57
    \/ Len(f) = 1 /\ f[1] \in 49..57
    \/ Len(f) = 2 /\ f[1] = 32 /\ f[2] \in 49..57

HourField(f) ==
    \/ Len(f) = 2 /\ f[1] = 50 /\ f[2] \in 48..51
    \/ Len(f) = 2 /\ f[1] \in 48..49 /\ IsDigit(f[2])
    \/ Len(f) = 1 /\ IsDigit(f[1])

MinuteField(f) ==
    \/ Len(f) = 2 /\ f[1] \in 48..53 /\ IsDigit(f[2])
    \/ Len(f) = 1 /\ IsDigit(f[1])

SecondField(f) ==
    \/ Len(f) = 2 /\ f[1] = 54 /\ f[2] \in 48..49
    \/ MinuteField(f)

NoDateTime == [year |-> 0, month |-> 0, day |-> 0, hour |-> 0, minute |-> 0, second |-> 0]

\* the checks of the datetime constructor on the converted fields
MakeDateTime(y, m, d, H, M, S) ==
    IF y >= 1 /\ d <= DaysInMonth(y, m) /\ S <= 59
    THEN [ok |-> TRUE,
          dt |-> [year |-> y, month |-> m, day |-> d, hour |-> H, minute |-> M,
                  second |-> S]]
    ELSE [ok |-> FALSE, dt |-> NoDateTime]

\* the six fields matched against their directives, then converted by int()
MatchFields(fY, fm, fd, fH, fM, fS) ==
    IF /\ YearField(fY) /\ MonthField(fm) /\ DayField(fd)
       /\ HourField(fH) /\ MinuteField(fM) /\ SecondField(fS)
    THEN MakeDateTime(NumVal(fY), NumVal(fm), NumVal(fd), NumVal(fH), NumVal(fM),
                      NumVal(fS))
    ELSE [ok |-> FALSE, dt |-> NoDateTime]

\* the text cut at the positions of the six literals - - T : : Z
SplitFields(s, p1, p2, p3, p4, p5, p6) ==
    IF p1 # 0 /\ p2 # 0 /\ p3 # 0 /\ p4 # 0 /\ p5 # 0 /\ p6 # 0 /\ p6 = Len(s)
    THEN MatchFields(SubSeq(s, 1, p1 - 1), SubSeq(s, p1 + 1, p2 - 1),
                     SubSeq(s, p2 + 1, p3 - 1), SubSeq(s, p3 + 1, p4 - 1),
                     SubSeq(s, p4 + 1, p5 - 1), SubSeq(s, p5 + 1, p6 - 1))
    ELSE [ok |-> FALSE, dt |-> NoDateTime]

Strptime(s) ==
    LET p1 == FindSep(s, 1, {45})
        p2 == FindSep(s, p1 + 1, {45})
        p3 == FindSep(s, p2 + 1, {84, 116})
        p4 == FindSep(s, p3 + 1, {58})
        p5 == FindSep(s, p4 + 1, {58})
        p6 == FindSep(s, p5 + 1, {90, 122})
    IN  SplitFields(s, p1, p2, p3, p4, p5, p6)

\* datetime.date(), as an ordinal
DateOf(dt) == ToOrdinal(dt.year, dt.month, dt.day)

\* strftime('%Y-%m-%d %H:%M'): %m %d %H %M are two digits, %Y is the year
\* in decimal without padding (the C library's %Y)
Pad2(n) == <<DigitChar(n \div 10), DigitChar(n % 10)>>

RECURSIVE Decimal(_)
Decimal(n) ==
    IF n < 10 THEN <<DigitChar(n)>> ELSE Append(Decimal(n \div 10), DigitChar(n % 10))

Strftime(dt) ==
    Decimal(dt.year) \o <<45>> \o Pad2(dt.month) \o <<45>> \o Pad2(dt.day)
      \o <<32>> \o Pad2(dt.hour) \o <<58>> \o Pad2(dt.minute)

\* ------------------------------------------------------ text of the program
\* "Unknown"
Chars_Unknown == <<85, 110, 107, 110, 111, 119, 110>>
Empty == <<>>

\* ------------------------------------------------- get_sentiment_label
\* score > 0.1, score < -0.1 on a score of score/PolarityScale
get_sentiment_label_inclusive(score) ==
    IF score * 10 >= PolarityScale THEN "Positive"
    ELSE IF score * 10 <= -PolarityScale THEN "Negative"
    ELSE "Neutral"

get_sentiment_label(score) ==
    IF score * 10 > PolarityScale THEN "Positive"
    ELSE IF score * 10 < -PolarityScale THEN "Negative"
    ELSE "Neutral"

\* the colour lambda of the bar chart
BarColor_swapped(x) ==
    IF x > 0 THEN "darkred" ELSE IF x < 0 THEN "darkseagreen" ELSE "darkorange"

BarColor(x) ==
    IF x > 0 THEN "darkseagreen" ELSE IF x < 0 THEN "darkred" ELSE "darkorange"

\* ------------------------------------------------------- fetch_articles
\* resp = [status, has_articles, articles]: the status code and the JSON
\* body (whether it has the key "articles", and the list under it).
\* Result: the returned list and the st.error calls made.
fetch_articles_ignoring_status(resp) ==
    [articles |-> IF resp.has_articles THEN resp.articles ELSE <<>>,
     errors |-> IF resp.status = 200 THEN <<>> ELSE <<resp.status>>]

fetch_articles(resp) ==
    IF resp.status = 200
    THEN [articles |-> IF resp.has_articles THEN resp.articles ELSE <<>>,
          errors |-> <<>>]
    ELSE [articles |-> <<>>, errors |-> <<resp.status>>]

\* ----------------------------------------------------- process_articles
\* one pass of the loop body over one raw article
GetTitle(article) == DictGet(article.title, PyNone)

GetDateStr(article) == DictGet(article.publishedAt, PyNone)

\* article.get("source", {}) and whether .get can be called on it
GetSource(article) == DictGet(article.source, PyDict(PyAbsent))

SourceName(src) == DictGet(src.v, PyStr(Chars_Unknown))

\* description = article.get("description", ""), then None -> ""
Description(article) ==
    LET d == DictGet(article.description, PyStr(Empty))
    IN  IF d.t = "none" THEN PyStr(Empty) ELSE d

\* source_url = article.get("url", ""), then None -> ""
SourceUrl_keep_none(article) == DictGet(article.url, PyStr(Empty))

SourceUrl(article) ==
    LET u == DictGet(article.url, PyStr(Empty))
    IN  IF u.t = "none" THEN PyStr(Empty) ELSE u

\* if not title or not date_str: continue
MissingRequired_date_only(title, date_str) == Falsy(date_str)

MissingRequired(title, date_str) == Falsy(title) \/ Falsy(date_str)

\* the exceptions the loop body catches
Caught == {"KeyError", "ValueError", "TypeError"}

\* What the loop body does with one article, up to the call of TextBlob:
\*   kind "raise": an exception leaves process_articles
\*   kind "skip" : continue without a warning
\*   kind "warn" : st.warning and continue
\*   kind "keep" : the record is appended (content is the scorer's input)
Normalize(article) ==
    LET title == GetTitle(article)
        date_str == GetDateStr(article)
        src == GetSource(article)
        base == [kind |-> "skip", exc |-> "none", title |-> title,
                 description |-> PyNone, dt |-> NoDateTime, source |-> PyNone,
                 source_url |-> PyNone, content |-> Empty]
    IN  IF src.t # "dict"
        THEN [base EXCEPT !.kind = IF "AttributeError" \in Caught THEN "warn" ELSE "raise",
                          !.exc = "AttributeError"]
        ELSE IF MissingRequired(title, date_str)
        THEN base
        ELSE IF date_str.t # "str"
        THEN [base EXCEPT !.kind = "warn", !.exc = "TypeError"]
        ELSE IF ~Strptime(date_str.v).ok
        THEN [base EXCEPT !.kind = "warn", !.exc = "ValueError"]
        ELSE IF title.t # "str" \/ Description(article).t # "str"
        THEN [base EXCEPT !.kind = "warn", !.exc = "TypeError"]
        ELSE [base EXCEPT !.kind = "keep",
                          !.description = Description(article),
                          !.dt = Strptime(date_str.v).dt,
                          !.source = SourceName(src),
                          !.source_url = SourceUrl(article),
                          !.content = title.v \o <<32>> \o Description(article).v]

\* the dictionary appended to processed_data
ProcessedRecord(n, polarity) ==
    [title |-> n.title, description |-> n.description, date |-> n.dt,
     polarity |-> polarity, sentiment_label |-> get_sentiment_label(polarity),
     source |-> n.source, source_url |-> n.source_url]

\* ------------------------------------------------------------ date buckets
\* start_of_week = today - timedelta(days=today.weekday())
StartOfWeek_isoweekday(today) == today - (Weekday(today) + 1)

StartOfWeek(today) == today - Weekday(today)

InToday(a, today) == DateOf(a.date) = today

InWeek_before_today(a, today) ==
    StartOfWeek(today) <= DateOf(a.date) /\ DateOf(a.date) < today

InWeek(a, today) ==
    StartOfWeek(today) <= DateOf(a.date) /\ DateOf(a.date) <= today

\* [a for a in parsed_articles if a["date"].date() == today]
RECURSIVE TodayArticles(_, _)
TodayArticles(parsed, today) ==
    IF parsed = <<>> THEN <<>>
    ELSE (IF InToday(Head(parsed), today) THEN <<Head(parsed)>> ELSE <<>>)
           \o TodayArticles(Tail(parsed), today)

\* [a for a in parsed_articles if start_of_week <= a["date"].date() <= today]
RECURSIVE WeekArticles(_, _)
WeekArticles(parsed, today) ==
    IF parsed = <<>> THEN <<>>
    ELSE (IF InWeek(Head(parsed), today) THEN <<Head(parsed)>> ELSE <<>>)
           \o WeekArticles(Tail(parsed), today)

AllArticles_this_week(parsed, today) == WeekArticles(parsed, today)

AllArticles(parsed, today) == parsed


\* ----------------------------------------------------------- presentation
\* pd.DataFrame(parsed_articles): no columns at all when the list is empty
RecordColumns == <<"title", "description", "date", "polarity", "sentiment_label",
                   "source", "source_url">>

DataFrame(records) ==
    [columns |-> IF records = <<>> THEN <<>> ELSE RecordColumns, rows |-> records]

HasColumn(frame, c) == \E i \in 1..Len(frame.columns) : frame.columns[i] = c

RECURSIVE SumPolarity(_)
SumPolarity(rows) ==
    IF rows = <<>> THEN 0 ELSE Head(rows).polarity + SumPolarity(Tail(rows))

\* The integers that rounding num/den (den > 0) can give.  The code rounds a
\* binary double: away from a decimal tie that is the nearest integer; at a
\* decimal tie the double lies on either side, so both neighbours can result.
RoundNearest(num, den) ==
    LET q == num \div den
        r == num - q * den
    IN  IF 2 * r < den THEN {q}
        ELSE IF 2 * r > den THEN {q + 1}
        ELSE {q, q + 1}

\* round(df["polarity"].mean(), 2) if not df.empty else 0.0, in hundredths:
\* the values the metric can show
AvgPolarity(frame) ==
    IF frame.rows = <<>> THEN {0}
    ELSE RoundNearest(100 * SumPolarity(frame.rows), PolarityScale * Len(frame.rows))

DisplayColumns == <<"title", "sentiment_label", "polarity", "source">>

\* df[["title", "sentiment_label", "polarity", "source"]] raises KeyError
\* when a column is missing
SelectRaises(frame) == \E i \in 1..Len(DisplayColumns) : ~HasColumn(frame, DisplayColumns[i])

DisplayRow(r) ==
    [Title |-> r.title, Sentiment |-> r.sentiment_label, Polarity |-> r.polarity,
     Source |-> r.source]

ChartRow(r, i) ==
    [article_id |-> i - 1, polarity |-> r.polarity, color |-> BarColor(r.polarity),
     title |-> r.title]

\* one article of display_articles
Card(a) ==
    [title |-> a.title, caption_date |-> Strftime(a.date), caption_source |-> a.source,
     sentiment |-> a.sentiment_label,
     read_more |-> ~Falsy(a.source_url), url |-> a.source_url]

display_articles(articles) ==
    IF articles = <<>>
    THEN [info |-> TRUE, cards |-> <<>>]
    ELSE [info |-> FALSE, cards |-> [i \in 1..Len(articles) |-> Card(articles[i])]]

\* ------------------------------------------------------------------ inputs
\* "Up", "ok", "R", "http://x"
Chars_Up == <<85, 112>>
Chars_ok == <<111, 107>>
Chars_R == <<82>>
Chars_url == <<104, 116, 116, 112, 58, 47, 47, 120>>
\* "2030-06-09", "2030-06-10", "2030-6-14", "2030-02-30"
Date_0609 == <<50, 48, 51, 48, 45, 48, 54, 45, 48, 57>>
Date_0610 == <<50, 48, 51, 48, 45, 48, 54, 45, 49, 48>>
Date_0614 == <<50, 48, 51, 48, 45, 54, 45, 49, 52>>
Date_0230 == <<50, 48, 51, 48, 45, 48, 50, 45, 51, 48>>
\* "0999-01-02"
Date_0999 == <<48, 57, 57, 57, 45, 48, 49, 45, 48, 50>>
\* "2030-06-12" with the year in full-width digits (U+FF10..U+FF19)
Date_0612_wide == <<65298, 65296, 65299, 65296, 45, 48, 54, 45, 49, 50>>
\* "T08:00:00Z"
Time_0800 == <<84, 48, 56, 58, 48, 48, 58, 48, 48, 90>>
\* "t1?:59:59z" with ARABIC-INDIC DIGIT THREE (U+0663) for ?: 13:59:59
Time_1359 == <<116, 49, 1635, 58, 53, 57, 58, 53, 57, 122>>

Article(title, description, publishedAt, source, url) ==
    [title |-> title, description |-> description, publishedAt |-> publishedAt,
     source |-> source, url |-> url]

Good == Article(PyStr(Chars_Up), PyStr(Chars_ok), PyStr(Date_0610 \o Time_0800),
                PyDict(PyStr(Chars_R)), PyStr(Chars_url))

\* raw articles the provider may return
Pool ==
    { Good,
      \* kept, every optional field absent or null
      Article(PyStr(Chars_Up), PyNone, PyStr(Date_0612_wide \o Time_1359), PyAbsent, PyAbsent),
      Article(PyStr(Chars_ok), PyAbsent, PyStr(Date_0609 \o Time_0800), PyDict(PyAbsent), PyNone),
      Article(PyStr(Chars_R), PyStr(Empty), PyStr(Date_0614 \o Time_0800), PyDict(PyNone), PyInt(0)),
      Article(PyStr(Chars_Up), PyStr(Chars_ok), PyStr(Date_0999 \o Time_0800),
              PyDict(PyStr(Chars_R)), PyDict(PyAbsent)),
      \* title missing, null or empty
      [Good EXCEPT !.title = PyAbsent],
      [Good EXCEPT !.title = PyNone],
      [Good EXCEPT !.title = PyStr(Empty)],
      \* publishedAt missing, null or not in the format
      [Good EXCEPT !.publishedAt = PyAbsent],
      [Good EXCEPT !.publishedAt = PyNone],
      [Good EXCEPT !.publishedAt = PyStr(Date_0610)],
      [Good EXCEPT !.publishedAt = PyStr(Date_0230 \o Time_0800)],
      \* wrong types
      [Good EXCEPT !.title = PyInt(5)],
      [Good EXCEPT !.title = PyDict(PyAbsent)],
      [Good EXCEPT !.description = PyInt(5)],
      [Good EXCEPT !.publishedAt = PyInt(5)],
      [Good EXCEPT !.source = PyNone],
      [Good EXCEPT !.source = PyStr(Chars_R), !.title = PyAbsent] }

ArticleLists == UNION {[1..n -> Pool] : n \in 0..MaxArticles}

Statuses == {200, 500}

\* values the polarity scorer may return (in 1/PolarityScale)
Polarities == {-(PolarityScale \div 2), (PolarityScale \div 2) + 5}

Monday == ToOrdinal(2030, 6, 10)

\* the current date, around the dates of the articles
Todays == {Monday, Monday + 2, Monday + 6, Monday + 7}

\* ------------------------------------------------------------------- state
VARIABLES
    pc,              \* position of the script
    requests,        \* number of GET requests issued
    response,        \* the provider's response
    errors,          \* st.error calls (status codes)
    raw_articles,    \* result of fetch_articles
    idx,             \* position of the loop of process_articles
    processed_data,  \* the list process_articles builds
    warnings,        \* st.warning calls (exception names)
    scored,          \* the scorer's polarity for each text it was given
    parsed_articles, \* result of process_articles
    df,              \* the DataFrame
    today, start_of_week,
    today_articles, week_articles, all_articles,
    metrics,         \* the two st.metric values and the download button
    df_display,      \* the table
    chart,           \* the bar chart's data
    tabs,            \* what display_articles rendered in each tab
    exception,       \* the uncaught exception that ended the script, if any
    probe            \* classification of a single score

vars == <<pc, requests, response, errors, raw_articles, idx, processed_data, warnings,
          scored, parsed_articles, df, today, start_of_week, today_articles,
          week_articles, all_articles, metrics, df_display, chart, tabs, exception,
          probe>>

NoResponse == [status |-> 0, has_articles |-> FALSE, articles |-> <<>>]
NoException == [type |-> "none", line |-> 0]
NoTabs == [rendered |-> FALSE,
           today |-> [info |-> FALSE, cards |-> <<>>],
           week |-> [info |-> FALSE, cards |-> <<>>],
           all |-> [info |-> FALSE, cards |-> <<>>]]
NoMetrics == [rendered |-> FALSE, avg |-> 0, count |-> 0, csv_columns |-> <<>>, csv_rows |-> 0]
NoProbe == [stage |-> "idle", score |-> 0, label |-> "", color |-> ""]

PipelineInit ==
    /\ pc = "fetch"
    /\ requests = 0
    /\ response = NoResponse
    /\ errors = <<>>
    /\ raw_articles = <<>>
    /\ idx = 1
    /\ processed_data = <<>>
    /\ warnings = <<>>
    /\ scored = <<>>
    /\ parsed_articles = <<>>
    /\ df = [columns |-> <<>>, rows |-> <<>>]
    /\ today = 0
    /\ start_of_week = 0
    /\ today_articles = <<>>
    /\ week_articles = <<>>
    /\ all_articles = <<>>
    /\ metrics = NoMetrics
    /\ df_display = <<>>
    /\ chart = <<>>
    /\ tabs = NoTabs
    /\ exception = NoException

Init == PipelineInit /\ probe = NoProbe

\* raw_articles = fetch_articles(query, num_articles): one GET, no retry
Fetch ==
    /\ pc = "fetch"
    /\ \E status \in Statuses, has \in BOOLEAN, arts \in ArticleLists :
         /\ has \/ arts = <<>>
         /\ response' = [status |-> status, has_articles |-> has, articles |-> arts]
         /\ raw_articles' = fetch_articles(response').articles
         /\ errors' = errors \o fetch_articles(response').errors
    /\ requests' = requests + 1
    /\ pc' = "process"
    /\ UNCHANGED <<idx, processed_data, warnings, scored, parsed_articles, df, today,
                   start_of_week, today_articles, week_articles, all_articles, metrics,
                   df_display, chart, tabs, exception, probe>>

\* one iteration of "for article in articles"
ProcessStep ==
    /\ pc = "process"
    /\ idx <= Len(raw_articles)
    /\ LET n == Normalize(raw_articles[idx])
       IN  CASE n.kind = "raise" ->
                  /\ pc' = "crashed"
                  /\ exception' = [type |-> n.exc, line |-> 80]
                  /\ UNCHANGED <<idx, processed_data, warnings, scored>>
             [] n.kind = "skip" ->
                  /\ idx' = idx + 1
                  /\ UNCHANGED <<pc, exception, processed_data, warnings, scored>>
             [] n.kind = "warn" ->
                  /\ idx' = idx + 1
                  /\ warnings' = Append(warnings, n.exc)
                  /\ UNCHANGED <<pc, exception, processed_data, scored>>
             [] n.kind = "keep" ->
                  /\ idx' = idx + 1
                  /\ \E p \in Polarities :
                       /\ \A k \in DOMAIN scored : scored[k].text = n.content => scored[k].polarity = p
                       /\ scored' = IF \E k \in DOMAIN scored : scored[k].text = n.content
                                    THEN scored
                                    ELSE Append(scored, [text |-> n.content, polarity |-> p])
                       /\ processed_data' = Append(processed_data, ProcessedRecord(n, p))
                  /\ UNCHANGED <<pc, exception, warnings>>
    /\ UNCHANGED <<requests, response, errors, raw_articles, parsed_articles, df, today,
                   start_of_week, today_articles, week_articles, all_articles, metrics,
                   df_display, chart, tabs, probe>>

\* return processed_data; parsed_articles = ...; df = pd.DataFrame(parsed_articles)
ProcessReturn ==
    /\ pc = "process"
    /\ idx > Len(raw_articles)
    /\ parsed_articles' = processed_data
    /\ df' = DataFrame(processed_data)
    /\ pc' = "bucket"
    /\ UNCHANGED <<requests, response, errors, raw_articles, idx, processed_data, warnings,
                   scored, today, start_of_week, today_articles, week_articles,
                   all_articles, metrics, df_display, chart, tabs, exception, probe>>

\* today, start_of_week and the three filtered lists
Bucket ==
    /\ pc = "bucket"
    /\ \E now \in Todays :
         /\ today' = now
         /\ start_of_week' = StartOfWeek(now)
         /\ today_articles' = TodayArticles(parsed_articles, now)
         /\ week_articles' = WeekArticles(parsed_articles, now)
         /\ all_articles' = AllArticles(parsed_articles, now)
    /\ pc' = "metrics"
    /\ UNCHANGED <<requests, response, errors, raw_articles, idx, processed_data, warnings,
                   scored, parsed_articles, df, metrics, df_display, chart, tabs,
                   exception, probe>>

\* the two metrics and the download button
Metrics ==
    /\ pc = "metrics"
    /\ \E avg \in AvgPolarity(df) :
         metrics' = [rendered |-> TRUE, avg |-> avg, count |-> Len(df.rows),
                     csv_columns |-> df.columns, csv_rows |-> Len(df.rows)]
    /\ pc' = "table"
    /\ UNCHANGED <<requests, response, errors, raw_articles, idx, processed_data, warnings,
                   scored, parsed_articles, df, today, start_of_week, today_articles,
                   week_articles, all_articles, df_display, chart, tabs, exception, probe>>

\* df_display = df[[...]].rename(...); st.dataframe(df_display)
Table ==
    /\ pc = "table"
    /\ IF SelectRaises(df)
       THEN /\ pc' = "crashed"
            /\ exception' = [type |-> "KeyError", line |-> 159]
            /\ UNCHANGED df_display
       ELSE /\ pc' = "chart"
            /\ df_display' = [i \in 1..Len(df.rows) |-> DisplayRow(df.rows[i])]
            /\ UNCHANGED exception
    /\ UNCHANGED <<requests, response, errors, raw_articles, idx, processed_data, warnings,
                   scored, parsed_articles, df, today, start_of_week, today_articles,
                   week_articles, all_articles, metrics, chart, tabs, probe>>

\* the colour and article_id columns and the bar chart
Chart ==
    /\ pc = "chart"
    /\ IF ~HasColumn(df, "polarity")
       THEN /\ pc' = "crashed"
            /\ exception' = [type |-> "KeyError", line |-> 172]
            /\ UNCHANGED <<df, chart>>
       ELSE /\ pc' = "tabs"
            /\ df' = [df EXCEPT !.columns = @ \o <<"color", "article_id">>]
            /\ chart' = [i \in 1..Len(df.rows) |-> ChartRow(df.rows[i], i)]
            /\ UNCHANGED exception
    /\ UNCHANGED <<requests, response, errors, raw_articles, idx, processed_data, warnings,
                   scored, parsed_articles, today, start_of_week, today_articles,
                   week_articles, all_articles, metrics, df_display, tabs, probe>>

\* the three tabs, each filled by display_articles
Tabs ==
    /\ pc = "tabs"
    /\ tabs' = [rendered |-> TRUE,
                today |-> display_articles(today_articles),
                week |-> display_articles(week_articles),
                all |-> display_articles(all_articles)]
    /\ pc' = "done"
    /\ UNCHANGED <<requests, response, errors, raw_articles, idx, processed_data, warnings,
                   scored, parsed_articles, df, today, start_of_week, today_articles,
                   week_articles, all_articles, metrics, df_display, chart, exception,
                   probe>>

Next ==
    \/ Fetch
    \/ ProcessStep
    \/ ProcessReturn
    \/ Bucket
    \/ Metrics
    \/ Table
    \/ Chart
    \/ Tabs

Spec == Init /\ [][Next]_vars

\* ---------------------------------------- classification of a single score
Scores == (-PolarityScale)..PolarityScale

InitLabel ==
    /\ PipelineInit
    /\ \E s \in Scores : probe = [stage |-> "input", score |-> s, label |-> "", color |-> ""]

Classify ==
    /\ probe.stage = "input"
    /\ probe' = [stage |-> "classified", score |-> probe.score,
                 label |-> get_sentiment_label(probe.score),
                 color |-> BarColor(probe.score)]
    /\ UNCHANGED <<pc, requests, response, errors, raw_articles, idx, processed_data,
                   warnings, scored, parsed_articles, df, today, start_of_week,
                   today_articles, week_articles, all_articles, metrics, df_display,
                   chart, tabs, exception>>

NextLabel == Classify

SpecLabel == InitLabel /\ [][NextLabel]_vars
\* ================================================================ properties
\* process_articles has returned (the script is past line 122)
Returned ==
    \/ pc \in {"bucket", "metrics", "table", "chart", "tabs", "done"}
    \/ pc = "crashed" /\ exception.line # 80

\* the buckets have been computed (the script is past line 136)
Bucketed ==
    \/ pc \in {"metrics", "table", "chart", "tabs", "done"}
    \/ pc = "crashed" /\ exception.line # 80

IsText(val) == val.t = "str"

Missing(val) == val.t \in {"absent", "none"}

Parses(val) == IsText(val) /\ Strptime(val.v).ok

\* the records the claim C2 lists: title missing or empty, publishedAt
\* missing, or publishedAt not parsing against the format
ListedDiscard(a) ==
    \/ Missing(a.title)
    \/ IsText(a.title) /\ Len(a.title.v) = 0
    \/ Missing(a.publishedAt)
    \/ ~Parses(a.publishedAt)

\* the listed records and those whose title or description is not text
TypedDiscard(a) ==
    \/ ListedDiscard(a)
    \/ ~IsText(a.title)
    \/ ~(Missing(a.description) \/ IsText(a.description))

CountListed(raw, n) == Cardinality({i \in 1..n : ListedDiscard(raw[i])})

CountTyped(raw, n) == Cardinality({i \in 1..n : TypedDiscard(raw[i])})

WellFormedOutput(records) ==
    \A k \in 1..Len(records) :
        /\ IsText(records[k].title) /\ Len(records[k].title.v) > 0
        /\ records[k].date # NoDateTime
        /\ records[k].date.month \in 1..12 /\ records[k].date.day \in 1..31

\* C1: get_sentiment_label(p) is Positive iff p > 0.1, Negative iff
\* p < -0.1 and Neutral iff -0.1 <= p <= 0.1; exactly one of the three labels
\* is returned, and p = 0.1 and p = -0.1 are Neutral.
C1_LabelThresholds ==
    probe.stage = "classified" =>
        /\ probe.label \in {"Positive", "Negative", "Neutral"}
        /\ (probe.label = "Positive") <=> (10 * probe.score > PolarityScale)
        /\ (probe.label = "Negative") <=> (10 * probe.score < -PolarityScale)
        /\ (probe.label = "Neutral") <=>
              (-PolarityScale <= 10 * probe.score /\ 10 * probe.score <= PolarityScale)

C1_Witness ==
    /\ probe.stage = "classified"
    /\ probe.score = PolarityScale \div 10
    /\ probe.label = "Neutral"

\* C2 as stated: when process_articles returns, the number of output records
\* is the number of input records minus the number of records with a missing
\* or empty title or a missing or unparseable publishedAt, and every output
\* record has a non-empty title and a parsed timestamp.
C2_CountOfListedDiscards ==
    Returned =>
        /\ Len(parsed_articles) =
              Len(raw_articles) - CountListed(raw_articles, Len(raw_articles))
        /\ WellFormedOutput(parsed_articles)

\* C2 amended: after any number of records has been processed, the number of
\* records kept is that number minus the number of processed records with a
\* missing or empty title, a missing or unparseable publishedAt, or a title
\* or description that is not text; what process_articles returns is the list
\* built that way over the whole input; every kept record has a non-empty
\* title and a parsed timestamp.
C2_CountOfTypedDiscards ==
    /\ idx - 1 <= Len(raw_articles)
    /\ Len(processed_data) = (idx - 1) - CountTyped(raw_articles, idx - 1)
    /\ WellFormedOutput(processed_data)
    /\ Returned => /\ idx - 1 = Len(raw_articles)
                   /\ parsed_articles = processed_data

C2_Witness ==
    /\ Returned
    /\ Len(raw_articles) = 2
    /\ Len(parsed_articles) = 1
    /\ \E i \in 1..2 : /\ ~ListedDiscard(raw_articles[i])
                       /\ raw_articles[i].description.t = "int"

\* C3: no record makes process_articles raise: the script never ends with an
\* exception raised inside the loop of process_articles.
C3_BatchNeverAborts == ~(pc = "crashed" /\ exception.line = 80)

\* C4: with zero processed articles the run ends normally, with average
\* polarity 0.0, count 0 and the 'no articles found' indicator in each of the
\* three tabs.
C4_EmptyRunReachesTabs ==
    (Returned /\ parsed_articles = <<>> /\ pc \in {"done", "crashed"}) =>
        /\ pc = "done"
        /\ metrics.rendered /\ metrics.avg = 0 /\ metrics.count = 0
        /\ tabs.rendered /\ tabs.today.info /\ tabs.week.info /\ tabs.all.info

\* C5: one request per run and no retry; a status other than 200 gives one
\* st.error and an empty list, status 200 gives the body's articles list, or
\* an empty list when the body has no such key.
C5_SingleFetch ==
    /\ requests <= 1
    /\ pc # "fetch" =>
         /\ requests = 1
         /\ response.status # 200 =>
              /\ raw_articles = <<>>
              /\ errors = <<response.status>>
         /\ response.status = 200 =>
              /\ errors = <<>>
              /\ raw_articles = IF response.has_articles THEN response.articles ELSE <<>>

C5_Witness ==
    /\ pc = "process"
    /\ response.status = 500
    /\ response.articles # <<>>
    /\ raw_articles = <<>>
    /\ errors = <<500>>

\* C6: each step of the loop that appends a record appends one whose
\* description is "" when the raw description is absent or null, whose
\* source_url is "" when the raw url is absent or null, whose source is
\* "Unknown" when the raw source name is absent, and whose fields otherwise
\* carry the raw values.
C6_Appended ==
    Len(processed_data') = Len(processed_data) + 1 =>
        LET a == raw_articles[idx]
            r == processed_data'[Len(processed_data')]
        IN  /\ r.title = a.title
            /\ r.description = IF Missing(a.description) THEN PyStr(<<>>) ELSE a.description
            /\ r.source_url = IF Missing(a.url) THEN PyStr(<<>>) ELSE a.url
            /\ r.source = IF a.source.t = "absent" \/ a.source.v.t = "absent"
                          THEN PyStr(<<85, 110, 107, 110, 111, 119, 110>>)
                          ELSE a.source.v

C6_Defaults == [][C6_Appended]_vars

C6_Witness ==
    /\ Len(processed_data) = 2
    /\ raw_articles[1].description.t = "none" /\ raw_articles[1].url.t = "absent"
    /\ raw_articles[1].source.t = "absent"
    /\ processed_data[1].description = PyStr(<<>>)
    /\ processed_data[1].source_url = PyStr(<<>>)
    /\ raw_articles[2].url.t = "none"
    /\ processed_data[2].source_url = PyStr(<<>>)

\* a date is a Monday when it is a whole number of weeks from 2030-06-10
IsMonday(d) == (d - ToOrdinal(2030, 6, 10)) % 7 = 0

Members(articles) == {articles[i] : i \in 1..Len(articles)}

\* C7: today holds exactly the articles dated on the current date, thisWeek
\* exactly those dated from start-of-week to today, start-of-week being the
\* most recent Monday on or before today.
C7_Buckets ==
    Bucketed =>
        /\ IsMonday(start_of_week)
        /\ start_of_week <= today /\ today - start_of_week < 7
        /\ IsMonday(today) => start_of_week = today
        /\ Members(today_articles) =
              {a \in Members(parsed_articles) : DateOf(a.date) = today}
        /\ Members(week_articles) =
              {a \in Members(parsed_articles) :
                  start_of_week <= DateOf(a.date) /\ DateOf(a.date) <= today}
        /\ \A a \in Members(today_articles) \cup Members(week_articles) :
              DateOf(a.date) <= today

C7_Witness ==
    /\ pc = "done"
    /\ ~IsMonday(today)
    /\ Len(parsed_articles) = 2
    /\ Len(week_articles) = 1
    /\ today_articles = <<>>
    /\ \E i \in 1..2 : DateOf(parsed_articles[i].date) > today

\* out holds, in order, one record for each raw record that is not discarded,
\* with that record's title and parsed date
RECURSIVE MatchesKept(_, _)
MatchesKept(raw, out) ==
    IF raw = <<>> THEN out = <<>>
    ELSE IF TypedDiscard(Head(raw)) THEN MatchesKept(Tail(raw), out)
    ELSE /\ out # <<>>
         /\ Head(out).title = Head(raw).title
         /\ Head(out).date = Strptime(Head(raw).publishedAt.v).dt
         /\ MatchesKept(Tail(raw), Tail(out))

\* C8: allTime is the whole processed list in the same order, whatever the
\* current date; its records are those of the raw records that were not
\* dropped, one each and in order, and the other buckets hold only records of
\* allTime, so a dropped raw record is in no bucket.
C8_AllTime ==
    Bucketed =>
        /\ all_articles = parsed_articles
        /\ MatchesKept(raw_articles, all_articles)
        /\ Members(today_articles) \subseteq Members(all_articles)
        /\ Members(week_articles) \subseteq Members(all_articles)

C8_Witness ==
    /\ Bucketed
    /\ Len(raw_articles) = 2
    /\ Len(all_articles) = 1
    /\ week_articles = <<>>
    /\ TypedDiscard(raw_articles[1])

\* C9 as stated: the colour of a bar is the positive one exactly when the
\* label is Positive, the negative one exactly when it is Negative and the
\* neutral one exactly when it is Neutral.
C9_ColorMatchesLabel ==
    probe.stage = "classified" =>
        /\ (probe.color = "darkseagreen") <=> (probe.label = "Positive")
        /\ (probe.color = "darkred") <=> (probe.label = "Negative")
        /\ (probe.color = "darkorange") <=> (probe.label = "Neutral")

\* C9 amended: the colour of a bar is the positive one exactly when the
\* polarity is above 0, the negative one exactly when it is below 0 and the
\* neutral one exactly when it is 0; so a Positive label has the positive
\* colour, a Negative label the negative colour and the neutral colour a
\* Neutral label, while a Neutral label with a non-zero polarity has the
\* colour of its sign.
C9_ColorBySign ==
    probe.stage = "classified" =>
        /\ (probe.color = "darkseagreen") <=> (probe.score > 0)
        /\ (probe.color = "darkred") <=> (probe.score < 0)
        /\ (probe.color = "darkorange") <=> (probe.score = 0)
        /\ probe.label = "Positive" => probe.color = "darkseagreen"
        /\ probe.label = "Negative" => probe.color = "darkred"
        /\ probe.color = "darkorange" => probe.label = "Neutral"

C9_Witness ==
    /\ probe.stage = "classified"
    /\ probe.score = -(PolarityScale \div 10)
    /\ probe.label = "Neutral"
    /\ probe.color = "darkred"

\* s can be obtained from t by deleting elements
RECURSIVE IsSubseq(_, _)
IsSubseq(s, t) ==
    IF s = <<>> THEN TRUE
    ELSE IF t = <<>> THEN FALSE
    ELSE IF Head(s) = Head(t) THEN IsSubseq(Tail(s), Tail(t))
    ELSE IsSubseq(s, Tail(t))

\* C10: today is within thisWeek and thisWeek within allTime, each bucket
\* listing records of the processed list in its order, none more often than
\* the processed list has it.
C10_Nested ==
    Bucketed =>
        /\ IsSubseq(today_articles, week_articles)
        /\ IsSubseq(week_articles, all_articles)
        /\ IsSubseq(all_articles, parsed_articles)

C10_Witness ==
    /\ Bucketed
    /\ IsMonday(today)
    /\ Len(today_articles) = 1
    /\ week_articles = today_articles
    /\ Len(all_articles) = 2
====
